---- MODULE Spec2Model ----
(***************************************************************************)
(* A model of the x86 subset emulator of src/main.rs: the memory, the      *)
(* register file, the ModRM decoder, the instruction handlers, the flag    *)
(* function and the execution loop.                                        *)
(*                                                                         *)
(* Number representation.  TLC integers are 32-bit signed, so a u32 / i32  *)
(* of the program is kept as a pair <<hi, lo>> of 16-bit halves (its bit   *)
(* pattern); u8 is 0..255, i8 is -128..127, and a u64 is a record of two   *)
(* u32 halves.  Memory addresses that are inside the memory (< 2^20) are   *)
(* plain integers.                                                         *)
(*                                                                         *)
(* Rust integer overflow depends on the build: with overflow checks (the   *)
(* dev profile) it panics, without (the release profile) it wraps.  The    *)
(* variable overflow_checks is that choice; both builds are explored.      *)
(***************************************************************************)
EXTENDS Integers, Sequences, FiniteSets, TLC

VARIABLES
    regs,             \* Emulator.regs: 8 general registers, index 0..7
    eflags,           \* Emulator.eflags
    eip,              \* Emulator.eip
    mem,              \* Emulator.mem.v, kept sparse: address -> nonzero byte
    status,           \* where main / Emulator::exec is
    overflow_checks,  \* the build: TRUE = arithmetic overflow panics
    bin,              \* the program image main loaded
    hist              \* the machine states before each executed iteration

vars == <<regs, eflags, eip, mem, status, overflow_checks, bin, hist>>

MEMORY_SIZE == 1048576
HalfWord == 256 * 256

\* ------------------------------------------------------------------ u32
U32(n) == <<n \div HalfWord, n % HalfWord>>
ZeroWord == <<0, 0>>
MemorySizeWord == U32(MEMORY_SIZE)

U32Less(a, b) == a[1] < b[1] \/ (a[1] = b[1] /\ a[2] < b[2])

\* an address inside the memory, as an integer (only for a < MEMORY_SIZE)
AddrOf(a) == a[1] * HalfWord + a[2]

\* a + b on bit patterns: the 32-bit sum and the carry out of bit 31
AddBits(a, b) ==
    LET lo == a[2] + b[2]
        hi == a[1] + b[1] + (lo \div HalfWord)
    IN  [carry |-> hi \div HalfWord, v |-> <<hi % HalfWord, lo % HalfWord>>]

\* a - b on bit patterns: the 32-bit difference and the borrow
SubBits(a, b) ==
    LET lo == a[2] - b[2]
        bl == IF lo < 0 THEN 1 ELSE 0
        hi == a[1] - b[1] - bl
        bh == IF hi < 0 THEN 1 ELSE 0
    IN  [borrow |-> bh, v |-> <<hi + bh * HalfWord, lo + bl * HalfWord>>]

SignBit(a) == a[1] >= 32768
Plus1(a) == AddBits(a, <<0, 1>>).v

\* Rust `a + b` on u32: panics on overflow in a checked build, else wraps
u32_add(a, b) ==
    LET r == AddBits(a, b)
    IN  [ok |-> ~(overflow_checks /\ r.carry = 1), v |-> r.v]

\* Rust `a - b` on u32
u32_sub(a, b) ==
    LET r == SubBits(a, b)
    IN  [ok |-> ~(overflow_checks /\ r.borrow = 1), v |-> r.v]

\* Rust `a + b` on i32 (bit patterns): signed overflow panics or wraps
i32_add(a, b) ==
    LET r == AddBits(a, b)
        ovf == SignBit(a) = SignBit(b) /\ SignBit(r.v) # SignBit(a)
    IN  [ok |-> ~(overflow_checks /\ ovf), v |-> r.v]

\* Rust `-a` on i32: overflows only for i32::MIN
i32_neg(a) ==
    LET r == SubBits(ZeroWord, a)
    IN  [ok |-> ~(overflow_checks /\ a = <<32768, 0>>), v |-> r.v]

\* Rust `a + b` on i8
i8_add(a, b) ==
    LET s == a + b
        fits == s >= -128 /\ s <= 127
    IN  [ok |-> fits \/ ~overflow_checks,
         v  |-> IF fits THEN s ELSE ((s + 128) % 256) - 128]

\* Rust `-a` on i8: overflows only for i8::MIN
i8_neg(a) ==
    [ok |-> a # -128 \/ ~overflow_checks, v |-> IF a = -128 THEN -128 ELSE -a]

\* Rust `x as u32` for x: i8 (sign extension) and x: u8 (zero extension)
i8_as_u32(x) == IF x >= 0 THEN <<0, x>> ELSE <<65535, HalfWord + x>>
u8_as_u32(x) == <<0, x>>
u8_as_i8(x) == IF x >= 128 THEN x - 256 ELSE x

\* the four little-endian bytes of a u32, and back
BytesOf(w) == <<w[2] % 256, w[2] \div 256, w[1] % 256, w[1] \div 256>>
WordOf(b) == <<b[4] * 256 + b[3], b[2] * 256 + b[1]>>

\* ------------------------------------------------------------------ Memory
\* Memory::new: all bytes zero (the sparse map holds the nonzero bytes only)
Memory_new == [a \in {} |-> 0]

MemByte(memv, a) == IF a \in DOMAIN memv THEN memv[a] ELSE 0

\* store the bytes bs at the integer address a .. a + Len(bs) - 1
MemStore(memv, a, bs) ==
    LET rng == a .. (a + Len(bs) - 1)
        nz  == {x \in rng : bs[x - a + 1] # 0}
    IN  [x \in (DOMAIN memv \ rng) \cup nz |->
            IF x \in rng THEN bs[x - a + 1] ELSE memv[x]]

\* Memory::load_bin: copy bin to at; the slice at..at+n must be in the memory
load_bin(memv, image, at) ==
    [ok  |-> at + Len(image) <= MEMORY_SIZE,
     mem |-> IF at + Len(image) <= MEMORY_SIZE THEN MemStore(memv, at, image) ELSE memv]

\* one byte is readable at i iff i < len (slice i.. is empty at i = len)
InMem1(i) == U32Less(i, MemorySizeWord)
\* four bytes are readable at i iff i + 4 <= len
InMem4(i) == U32Less(i, U32(MEMORY_SIZE - 3))

Memory_read_u8(memv, i) ==
    [ok |-> InMem1(i), v |-> IF InMem1(i) THEN MemByte(memv, AddrOf(i)) ELSE 0]

Memory_read_i8(memv, i) ==
    [ok |-> InMem1(i), v |-> IF InMem1(i) THEN u8_as_i8(MemByte(memv, AddrOf(i))) ELSE 0]

Memory_read_u32(memv, i) ==
    [ok |-> InMem4(i),
     v  |-> IF InMem4(i)
            THEN LET a == AddrOf(i)
                 IN  WordOf(<<MemByte(memv, a), MemByte(memv, a + 1),
                             MemByte(memv, a + 2), MemByte(memv, a + 3)>>)
            ELSE ZeroWord]

\* read_i32 returns the same four bytes, read as a signed value
Memory_read_i32(memv, i) == Memory_read_u32(memv, i)

\* Memory::write_u32: write_all on the slice i.. copies what fits and then
\* fails (unwrap panics) when fewer than four bytes fit
\* write_u32 storing the most significant byte first
Memory_write_u32_BigEndian(memv, i, v) ==
    LET bs == <<v[1] \div 256, v[1] % 256, v[2] \div 256, v[2] % 256>>
    IN  IF InMem4(i) THEN [ok |-> TRUE, mem |-> MemStore(memv, AddrOf(i), bs)]
        ELSE [ok |-> FALSE, mem |-> memv]

Memory_write_u32(memv, i, v) ==
    IF InMem4(i) THEN [ok |-> TRUE, mem |-> MemStore(memv, AddrOf(i), BytesOf(v))]
    ELSE IF InMem1(i)
         THEN [ok  |-> FALSE,
               mem |-> MemStore(memv, AddrOf(i),
                                SubSeq(BytesOf(v), 1, MEMORY_SIZE - AddrOf(i)))]
         ELSE [ok |-> FALSE, mem |-> memv]

\* ------------------------------------------------------------------ machine
\* A machine value m is the Emulator while a handler runs on it; fatal is
\* set once the handler has panicked, and every later statement is skipped.
EAX == 0
ECX == 1
EDX == 2
EBX == 3
ESP == 4
EBP == 5
ESI == 6
EDI == 7
REG_COUNT == 8
RegIdx == 0 .. (REG_COUNT - 1)

Panic(m) == [m EXCEPT !.fatal = TRUE]
Check(m, ok) == IF m.fatal \/ ok THEN m ELSE Panic(m)

read_reg(m, i) == m.regs[i]
write_reg(m, i, v) == IF m.fatal THEN m ELSE [m EXCEPT !.regs[i] = v]

\* emu.eip += n
Advance(m, n) ==
    IF m.fatal THEN m
    ELSE LET r == u32_add(m.eip, U32(n))
         IN  IF r.ok THEN [m EXCEPT !.eip = r.v] ELSE Panic(m)

\* emu.mem.read_*(addr) inside a handler: nothing is read once fatal
ReadU8(m, a) == IF m.fatal THEN [ok |-> FALSE, v |-> 0] ELSE Memory_read_u8(m.mem, a)
ReadI8(m, a) == IF m.fatal THEN [ok |-> FALSE, v |-> 0] ELSE Memory_read_i8(m.mem, a)
ReadU32(m, a) == IF m.fatal THEN [ok |-> FALSE, v |-> ZeroWord] ELSE Memory_read_u32(m.mem, a)
ReadI32(m, a) == IF m.fatal THEN [ok |-> FALSE, v |-> ZeroWord] ELSE Memory_read_i32(m.mem, a)

\* emu.mem.write_u32(addr, v) inside a handler
WriteU32(m, a, v) ==
    IF m.fatal THEN m
    ELSE LET w == Memory_write_u32(m.mem, a, v)
         IN  [m EXCEPT !.mem = w.mem, !.fatal = ~w.ok]

\* push storing v at the old ESP, before the decrement
push_StoresAtOldEsp(m, v) ==
    IF m.fatal THEN m
    ELSE LET new_esp == u32_sub(read_reg(m, ESP), U32(4))
         IN  IF ~new_esp.ok THEN Panic(m)
             ELSE WriteU32(write_reg(m, ESP, new_esp.v), read_reg(m, ESP), v)

\* Emulator::push
push(m, v) ==
    IF m.fatal THEN m
    ELSE LET new_esp == u32_sub(read_reg(m, ESP), U32(4))
         IN  IF ~new_esp.ok THEN Panic(m)
             ELSE WriteU32(write_reg(m, ESP, new_esp.v), new_esp.v, v)

\* Emulator::pop: the machine after the pop and the value popped
pop(m) ==
    IF m.fatal THEN [m |-> m, v |-> ZeroWord]
    ELSE LET cur_esp == read_reg(m, ESP)
             v == Memory_read_u32(m.mem, cur_esp)
             nxt == u32_add(cur_esp, U32(4))
         IN  IF ~v.ok \/ ~nxt.ok THEN [m |-> Panic(m), v |-> ZeroWord]
             ELSE [m |-> write_reg(m, ESP, nxt.v), v |-> v.v]

\* ------------------------------------------------------------------ ModRM
DispNone == [tag |-> "None", v |-> 0]
NoModRM == [mo |-> 0, re |-> 0, rm |-> 0, sib |-> FALSE, disp |-> DispNone]

\* the SIB byte of ModRM::parse: read and skipped when mod != 11 and rm = 100
ParseSib(p) ==
    IF p.m.fatal \/ ~(p.x.mo # 3 /\ p.x.rm = 4) THEN p
    ELSE LET b == ReadU8(p.m, p.m.eip)
         IN  [m |-> Advance(Check(p.m, b.ok), 1), x |-> [p.x EXCEPT !.sib = TRUE]]

\* ParseDisp with the disp8 arm advancing eip by 4, as the disp32 arm does
ParseDisp_Disp8Advance4(p) ==
    IF p.m.fatal THEN p
    ELSE IF p.x.mo = 2 \/ (p.x.mo = 0 /\ p.x.rm = 5)
         THEN LET d == ReadI32(p.m, p.m.eip)
              IN  [m |-> Advance(Check(p.m, d.ok), 4),
                   x |-> [p.x EXCEPT !.disp = [tag |-> "i32", v |-> d.v]]]
         ELSE IF p.x.mo = 1
              THEN LET d == ReadI8(p.m, p.m.eip)
                   IN  [m |-> Advance(Check(p.m, d.ok), 4),
                        x |-> [p.x EXCEPT !.disp = [tag |-> "i8", v |-> d.v]]]
              ELSE p

\* the displacement of ModRM::parse
ParseDisp(p) ==
    IF p.m.fatal THEN p
    ELSE IF p.x.mo = 2 \/ (p.x.mo = 0 /\ p.x.rm = 5)
         THEN LET d == ReadI32(p.m, p.m.eip)
              IN  [m |-> Advance(Check(p.m, d.ok), 4),
                   x |-> [p.x EXCEPT !.disp = [tag |-> "i32", v |-> d.v]]]
         ELSE IF p.x.mo = 1
              THEN LET d == ReadI8(p.m, p.m.eip)
                   IN  [m |-> Advance(Check(p.m, d.ok), 1),
                        x |-> [p.x EXCEPT !.disp = [tag |-> "i8", v |-> d.v]]]
              ELSE p

\* ModRM::parse: the machine with eip past the ModRM bytes, and the operand
ModRM_parse(m) ==
    LET code == ReadU8(m, m.eip)
        x == [mo |-> code.v \div 64, re |-> (code.v \div 8) % 8, rm |-> code.v % 8,
              sib |-> FALSE, disp |-> DispNone]
    IN  IF ~code.ok THEN [m |-> Panic(m), x |-> NoModRM]
        ELSE ParseDisp(ParseSib([m |-> Advance(m, 1), x |-> x]))

\* base + x / base - (-x) for a disp8 x
AddSigned8(base, x) ==
    IF x >= 0 THEN u32_add(base, i8_as_u32(x))
    ELSE LET n == i8_neg(x)
             r == u32_sub(base, i8_as_u32(n.v))
         IN  [ok |-> n.ok /\ r.ok, v |-> r.v]

\* base + x / base - (-x) for a disp32 x
AddSigned32(base, x) ==
    IF ~SignBit(x) THEN u32_add(base, x)
    ELSE LET n == i32_neg(x)
             r == u32_sub(base, n.v)
         IN  [ok |-> n.ok /\ r.ok, v |-> r.v]

\* calc_memory_address taking rm = 4 as the base register ESP, without SIB
calc_memory_address_SibAsBase(x, m) ==
    CASE x.mo = 0 ->
            IF x.rm = 5 THEN [ok |-> x.disp.tag = "i32", v |-> x.disp.v]
            ELSE [ok |-> TRUE, v |-> read_reg(m, x.rm)]
      [] x.mo = 1 ->
            IF x.disp.tag # "i8" THEN [ok |-> FALSE, v |-> ZeroWord]
            ELSE AddSigned8(read_reg(m, x.rm), x.disp.v)
      [] x.mo = 2 ->
            IF x.disp.tag # "i32" THEN [ok |-> FALSE, v |-> ZeroWord]
            ELSE AddSigned32(read_reg(m, x.rm), x.disp.v)
      [] OTHER -> [ok |-> FALSE, v |-> ZeroWord]

\* ModRM::calc_memory_address; ok = FALSE is unimplemented!() or a panic
calc_memory_address(x, m) ==
    CASE x.mo = 0 ->
            IF x.rm = 4 THEN [ok |-> FALSE, v |-> ZeroWord]
            ELSE IF x.rm = 5 THEN [ok |-> x.disp.tag = "i32", v |-> x.disp.v]
            ELSE [ok |-> TRUE, v |-> read_reg(m, x.rm)]
      [] x.mo = 1 ->
            IF x.rm = 4 THEN [ok |-> FALSE, v |-> ZeroWord]
            ELSE IF x.disp.tag # "i8" THEN [ok |-> FALSE, v |-> ZeroWord]
            ELSE AddSigned8(read_reg(m, x.rm), x.disp.v)
      [] x.mo = 2 ->
            IF x.rm = 4 THEN [ok |-> FALSE, v |-> ZeroWord]
            ELSE IF x.disp.tag # "i32" THEN [ok |-> FALSE, v |-> ZeroWord]
            ELSE AddSigned32(read_reg(m, x.rm), x.disp.v)
      [] OTHER -> [ok |-> FALSE, v |-> ZeroWord]

\* ModRM::write_u32
ModRM_write_u32(x, v, m) ==
    IF m.fatal THEN m
    ELSE IF x.mo = 3 THEN write_reg(m, x.rm, v)
    ELSE LET addr == calc_memory_address(x, m)
         IN  IF addr.ok THEN WriteU32(m, addr.v, v) ELSE Panic(m)

\* ModRM::read_u32
ModRM_read_u32(x, m) ==
    IF m.fatal THEN [ok |-> FALSE, v |-> ZeroWord]
    ELSE IF x.mo = 3 THEN [ok |-> TRUE, v |-> read_reg(m, x.rm)]
    ELSE LET addr == calc_memory_address(x, m)
         IN  IF addr.ok THEN Memory_read_u32(m.mem, addr.v)
             ELSE [ok |-> FALSE, v |-> ZeroWord]

\* ------------------------------------------------------------------ flags
CARRY == 1
ZERO == 6
SIGN == 7
OVERFLOW == 11

Pow2(k) == 2 ^ k

\* bit `shift` (< 16) of a u32
Bit(w, shift) == (w[2] \div Pow2(shift)) % 2 = 1

\* set / unset: *eflags |= 1 << shift, *eflags &= !(1 << shift)
set(w, shift) == IF Bit(w, shift) THEN w ELSE <<w[1], w[2] + Pow2(shift)>>
unset(w, shift) == IF Bit(w, shift) THEN <<w[1], w[2] - Pow2(shift)>> ELSE w

SetIf(w, shift, c) == IF c THEN set(w, shift) ELSE unset(w, shift)

\* a u64 is [hi, lo]; these are `(a as i64 + b as i64) as u64` and
\* `(a as i64 - b as i64) as u64` for a, b: u32
WideSum(a, b) ==
    LET r == AddBits(a, b) IN [hi |-> <<0, r.carry>>, lo |-> r.v]
\* WideDiff computed in 32 bits and then widened: the borrow is lost
WideDiff_Wrapping(a, b) ==
    [hi |-> ZeroWord, lo |-> SubBits(a, b).v]

WideDiff(a, b) ==
    LET r == SubBits(a, b)
    IN  [hi |-> IF r.borrow = 1 THEN <<65535, 65535>> ELSE ZeroWord, lo |-> r.v]

\* the flag tests of update_eflags on the wide result z
CarryOf(z) == z.hi # ZeroWord
ZeroOf(z) == z.hi = ZeroWord /\ z.lo = ZeroWord
SignOf(z) == SignBit(z.lo)
OverflowOf(x, y, z) == SignBit(x) # SignBit(y) /\ SignBit(x) # SignBit(z.lo)

update_eflags(out, x, y, z) ==
    SetIf(SetIf(SetIf(SetIf(out, CARRY, CarryOf(z)),
                      ZERO, ZeroOf(z)),
                SIGN, SignOf(z)),
          OVERFLOW, OverflowOf(x, y, z))

\* ------------------------------------------------------------------ handlers
\* Each handler maps the machine before it to the machine after it (or to
\* the machine at the point where it panicked, with fatal set).

\* emu.eip + n as an address
EipPlus(m, n) == u32_add(m.eip, U32(n))

\* the opcode byte under eip (the loop has read it already)
OpcodeAt(m) == MemByte(m.mem, AddrOf(m.eip))

\* eip += d / eip -= (-d) of the jumps, for an i32 and an i8 adjustment
JumpBy32(m, d) ==
    IF m.fatal THEN m
    ELSE LET t == AddSigned32(m.eip, d)
         IN  IF t.ok THEN [m EXCEPT !.eip = t.v] ELSE Panic(m)

JumpBy8(m, d) ==
    IF m.fatal THEN m
    ELSE LET t == AddSigned8(m.eip, d)
         IN  IF t.ok THEN [m EXCEPT !.eip = t.v] ELSE Panic(m)

\* mov_r32_imm32 reading the immediate at eip, over the opcode byte
mov_r32_imm32_ImmAtEip(m) ==
    LET k == OpcodeAt(m) - 184
        v == ReadU32(m, m.eip)
    IN  Advance(write_reg(Check(m, v.ok), k, v.v), 5)

mov_r32_imm32(m) ==
    LET k == OpcodeAt(m) - 184
        a == EipPlus(m, 1)
        v == ReadU32(Check(m, a.ok), a.v)
    IN  Advance(write_reg(Check(m, a.ok /\ v.ok), k, v.v), 5)

\* short_jump without the instruction length: d = diff
short_jump_NoLength(m) ==
    LET a == EipPlus(m, 1)
        diff == ReadI8(Check(m, a.ok), a.v)
    IN  JumpBy8(Check(m, a.ok /\ diff.ok), diff.v)

short_jump(m) ==
    LET a == EipPlus(m, 1)
        diff == ReadI8(Check(m, a.ok), a.v)
        d == i8_add(diff.v, 2)
    IN  JumpBy8(Check(m, a.ok /\ diff.ok /\ d.ok), d.v)

\* near_jump without the instruction length: d = diff
near_jump_NoLength(m) ==
    LET a == EipPlus(m, 1)
        diff == ReadI32(Check(m, a.ok), a.v)
    IN  JumpBy32(Check(m, a.ok /\ diff.ok), diff.v)

near_jump(m) ==
    LET a == EipPlus(m, 1)
        diff == ReadI32(Check(m, a.ok), a.v)
        d == i32_add(diff.v, U32(5))
    IN  JumpBy32(Check(m, a.ok /\ diff.ok /\ d.ok), d.v)

mov_rm32_imm32(m) ==
    LET p == ModRM_parse(Advance(m, 1))
        v == ReadU32(p.m, p.m.eip)
    IN  ModRM_write_u32(p.x, v.v, Advance(Check(p.m, v.ok), 4))

mov_rm32_r32(m) ==
    LET p == ModRM_parse(Advance(m, 1))
    IN  ModRM_write_u32(p.x, read_reg(p.m, p.x.re), p.m)

mov_r32_rm32(m) ==
    LET p == ModRM_parse(Advance(m, 1))
        v == ModRM_read_u32(p.x, p.m)
    IN  write_reg(Check(p.m, v.ok), p.x.re, v.v)

\* add_rm32_r32 with the flag update its TODO leaves out
add_rm32_r32_WithFlags(m) ==
    LET p == ModRM_parse(Advance(m, 1))
        a == ModRM_read_u32(p.x, p.m)
        b == read_reg(p.m, p.x.re)
        w == ModRM_write_u32(p.x, AddBits(a.v, b).v, Check(p.m, a.ok))
    IN  IF w.fatal THEN w
        ELSE [w EXCEPT !.eflags = update_eflags(w.eflags, a.v, b, WideSum(a.v, b))]

add_rm32_r32(m) ==
    LET p == ModRM_parse(Advance(m, 1))
        a == ModRM_read_u32(p.x, p.m)
        b == read_reg(p.m, p.x.re)
        c == u32_add(a.v, b)
    IN  ModRM_write_u32(p.x, c.v, Check(p.m, a.ok /\ c.ok))

\* update_eflags(&mut emu.eflags, x, y, z) in a handler
SetFlags(m, x, y, z) ==
    IF m.fatal THEN m ELSE [m EXCEPT !.eflags = update_eflags(m.eflags, x, y, z)]

cmp_r32_rm32(m) ==
    LET p == ModRM_parse(Advance(m, 1))
        a == read_reg(p.m, p.x.re)
        b == ModRM_read_u32(p.x, p.m)
        c == WideDiff(a, b.v)
        \* a as u64 - b as u64 is an unsigned subtraction: it overflows on borrow
        cok == ~(overflow_checks /\ U32Less(a, b.v))
    IN  SetFlags(Check(p.m, b.ok /\ cok), a, b.v, c)

\* the three arms of code_83, after the ModRM bytes have been parsed
add_rm32_imm8(p) ==
    LET a == ModRM_read_u32(p.x, p.m)
        i == ReadI8(Check(p.m, a.ok), p.m.eip)
        b == i8_as_u32(i.v)
        m1 == Advance(Check(p.m, a.ok /\ i.ok), 1)
        c == WideSum(a.v, b)
    IN  SetFlags(ModRM_write_u32(p.x, c.lo, m1), a.v, b, c)

sub_rm32_imm8(p) ==
    LET a == ModRM_read_u32(p.x, p.m)
        i == ReadI8(Check(p.m, a.ok), p.m.eip)
        b == i8_as_u32(i.v)
        m1 == Advance(Check(p.m, a.ok /\ i.ok), 1)
        c == WideDiff(a.v, b)
    IN  SetFlags(ModRM_write_u32(p.x, c.lo, m1), a.v, b, c)

\* the compare arm of code_83 writing the difference back, as SUB does
cmp_rm32_imm8_WritesDifference(p) == sub_rm32_imm8(p)

cmp_rm32_imm8(p) ==
    LET a == ModRM_read_u32(p.x, p.m)
        i == ReadI8(Check(p.m, a.ok), p.m.eip)
        b == i8_as_u32(i.v)
        m1 == Advance(Check(p.m, a.ok /\ i.ok), 1)
        c == WideDiff(a.v, b)
    IN  SetFlags(m1, a.v, b, c)

code_83(m) ==
    LET p == ModRM_parse(Advance(m, 1))
    IN  IF p.m.fatal THEN p.m
        ELSE CASE p.x.re = 0 -> add_rm32_imm8(p)
               [] p.x.re = 5 -> sub_rm32_imm8(p)
               [] p.x.re = 7 -> cmp_rm32_imm8(p)
               [] OTHER -> Panic(p.m)

code_ff(m) ==
    LET p == ModRM_parse(Advance(m, 1))
        a == ModRM_read_u32(p.x, p.m)
        c == u32_add(a.v, U32(1))
    IN  IF p.m.fatal THEN p.m
        ELSE IF p.x.re = 0 THEN ModRM_write_u32(p.x, c.v, Check(p.m, a.ok /\ c.ok))
        ELSE Panic(p.m)

push_imm8(m) ==
    LET a == EipPlus(m, 1)
        v == ReadU8(Check(m, a.ok), a.v)
    IN  Advance(push(Check(m, a.ok /\ v.ok), u8_as_u32(v.v)), 2)

push_imm32(m) ==
    LET a == EipPlus(m, 1)
        v == ReadU32(Check(m, a.ok), a.v)
    IN  Advance(push(Check(m, a.ok /\ v.ok), v.v), 5)

push_r32(m) ==
    LET reg == OpcodeAt(m) - 80
    IN  Advance(push(m, read_reg(m, reg)), 1)

pop_r32(m) ==
    LET reg == OpcodeAt(m) - 88
        r == pop(m)
    IN  Advance(write_reg(r.m, reg, r.v), 1)

\* call_rel32 pushing the address of the CALL itself
call_rel32_PushesEip(m) ==
    LET a == EipPlus(m, 1)
        diff == ReadI32(Check(m, a.ok), a.v)
        m1 == push(Check(m, a.ok /\ diff.ok), m.eip)
        d == i32_add(diff.v, U32(5))
    IN  JumpBy32(Check(m1, d.ok), d.v)

call_rel32(m) ==
    LET a == EipPlus(m, 1)
        diff == ReadI32(Check(m, a.ok), a.v)
        ra == EipPlus(m, 5)
        m1 == push(Check(m, a.ok /\ diff.ok /\ ra.ok), ra.v)
        d == i32_add(diff.v, U32(5))
    IN  JumpBy32(Check(m1, d.ok), d.v)

leave(m) ==
    LET ebp == read_reg(m, EBP)
        r == pop(write_reg(m, ESP, ebp))
    IN  Advance(write_reg(r.m, EBP, r.v), 1)

ret(m) ==
    LET r == pop(m)
    IN  IF r.m.fatal THEN r.m ELSE [r.m EXCEPT !.eip = r.v]

\* ------------------------------------------------------------------ programs
\* The images main may be given.  Each family is a set of byte sequences;
\* the bytes after an image are the zero bytes of the fresh memory.
MaxStack == 2    \* pushes (and pops) in a push/pop program
MaxGap == 2      \* filler bytes between a CALL and the RET it calls
MaxSteps == 8    \* loop iterations explored per run

LOAD_ADDRESS == 31744   \* 0x7c00

Bytes == 0 .. 255

\* 32-bit values at the edges of the signed and unsigned ranges
Words32 == { <<0, 0>>, <<0, 1>>, <<32767, 65535>>, <<32768, 0>>,
             <<65535, 65535>>, <<4660, 22136>> }

MovR32Imm32(r, w) == <<184 + r>> \o BytesOf(w)
PushImm32(w) == <<104>> \o BytesOf(w)
PushImm8(b) == <<106, b>>
PushR32(r) == <<80 + r>>
PopR32(r) == <<88 + r>>
ModRMByte(mo, re, rm) == mo * 64 + re * 8 + rm

\* one byte: every opcode, implemented or not, alone in zeroed memory
RawPrograms == { <<b>> : b \in Bytes }

\* every ModRM byte under every ModRM opcode (displacement and immediate 0)
ModRMOpcodes == {1, 131, 137, 139, 199, 255}
ModRMPrograms == { <<op, b>> : op \in ModRMOpcodes, b \in Bytes }

\* MOV EAX, a ; then ADD / SUB / CMP EAX, imm8 for every immediate byte
Group83Programs ==
    { MovR32Imm32(EAX, a) \o <<131, ModRMByte(3, re, EAX), i>> :
        a \in Words32, re \in {0, 5, 7}, i \in Bytes }

\* relative offsets: small ones, the ones that land on address 0, just below
\* it, on the end of the memory, and the edges of the i32 range
Rel32 == { <<0, 0>>, <<0, 1>>, <<65535, 65531>>, <<65535, 65534>>,
           <<65535, 33787>>, <<65535, 33786>>,
           <<15, 33787>>, <<15, 33786>>,
           <<32767, 65535>>, <<32767, 65531>>, <<32767, 65530>>, <<32768, 0>> }

JumpPrograms ==
    { <<235, d>> : d \in Bytes } \cup
    { <<op>> \o BytesOf(d) : op \in {232, 233}, d \in Rel32 }

\* n pushes, then n pops into the registers r0, r0 + 1, ... (mod 8)
PushCat == { PushR32(EAX), PushR32(ESP), PushR32(EDI),
             PushImm32(<<4660, 22136>>), PushImm8(133) }

RECURSIVE PushSeqs(_)
PushSeqs(n) == IF n = 0 THEN { <<>> }
               ELSE { p \o q : p \in PushCat, q \in PushSeqs(n - 1) }

RECURSIVE PopSeq(_, _)
PopSeq(r0, n) == IF n = 0 THEN <<>>
                 ELSE PopR32(r0) \o PopSeq((r0 + 1) % REG_COUNT, n - 1)

\* MOV EDI, 0xABCD0001 first, so that the registers pushed differ
PushPopPrograms ==
    { MovR32Imm32(EDI, <<43981, 1>>) \o PushR32(r) \o PopR32(q) :
        r \in RegIdx, q \in RegIdx } \cup
    UNION { { MovR32Imm32(EDI, <<43981, 1>>) \o ps \o PopSeq(r0, n) :
                ps \in PushSeqs(n), r0 \in RegIdx } : n \in 1 .. MaxStack }

Zeros(n) == [i \in 1 .. n |-> 0]

\* CALL forward over k filler bytes to a RET, and
\* JMP over a RET and k filler bytes to a CALL back to that RET
CallRetPrograms ==
    { <<232, k, 0, 0, 0>> \o Zeros(k) \o <<195>> : k \in 0 .. MaxGap } \cup
    { <<235, 1 + k, 195>> \o Zeros(k) \o <<232>> \o BytesOf(<<65535, 65530 - k>>) :
        k \in 0 .. MaxGap }

\* PUSH imm32 w ; RET: a return to any address w
PushRetPrograms == { PushImm32(w) \o <<195>> : w \in Words32 \cup {U32(MEMORY_SIZE)} }

\* MOV EBX, base ; MOV ECX, [EBX + disp] for every disp8 and for disp32
\* at the edges, and MOV ECX, [disp32]
Bases == { <<0, 0>>, <<0, 128>>, <<0, 256>>, <<65535, 65535>> }
Disp32 == { <<0, 0>>, <<0, 1>>, <<0, 256>>, <<15, 65532>>, <<32767, 65535>>,
            <<32768, 0>>, <<65535, 65280>>, <<65535, 65408>>, <<65535, 65535>> }

DispPrograms ==
    { MovR32Imm32(EBX, b) \o <<139, ModRMByte(1, ECX, EBX), d>> :
        b \in Bases, d \in Bytes } \cup
    { MovR32Imm32(EBX, b) \o <<139, ModRMByte(2, ECX, EBX)>> \o BytesOf(d) :
        b \in Bases, d \in Disp32 } \cup
    { <<139, ModRMByte(0, ECX, 5)>> \o BytesOf(d) : d \in Disp32 }

\* MOV r32, imm32 for every register and every edge value
MovImmPrograms == { MovR32Imm32(r, w) : r \in RegIdx, w \in Words32 }

\* MOV EAX, 1 ; CMP EAX, 1 (ZERO set) ; then one instruction of each other
\* handler
AfterCmp ==
    { <<1, 192>>, <<255, 192>>, <<80>>, <<88>>, <<104, 1, 0, 0, 0>>, <<106, 1>>,
      <<137, 193>>, <<139, 200>>, <<184, 2, 0, 0, 0>>, <<199, 193, 2, 0, 0, 0>>,
      <<201>>, <<195>>, <<232, 0, 0, 0, 0>>, <<233, 0, 0, 0, 0>>, <<235, 0>> }
AfterCmpPrograms ==
    { MovR32Imm32(EAX, <<0, 1>>) \o <<131, ModRMByte(3, 7, EAX), 1>> \o t :
        t \in AfterCmp }

Programs == RawPrograms \cup ModRMPrograms \cup Group83Programs \cup
            JumpPrograms \cup PushPopPrograms \cup CallRetPrograms \cup
            PushRetPrograms \cup DispPrograms \cup MovImmPrograms \cup
            AfterCmpPrograms

\* ------------------------------------------------------------------ the run
\* Emulator::new(mem_size, eip, esp): main passes 0x7c00 for both; address 0
\* is the other start explored.
StartAddresses == {0, LOAD_ADDRESS}

Emulator_new(at) ==
    [regs   |-> [i \in RegIdx |-> IF i = ESP THEN U32(at) ELSE ZeroWord],
     eflags |-> ZeroWord,
     eip    |-> U32(at),
     mem    |-> Memory_new,
     fatal  |-> FALSE]

\* the dispatch table Emulator::new builds: opcode -> handler
insts ==
    [op \in {1} \cup (80 .. 87) \cup (88 .. 95) \cup {104, 106, 131, 137, 139} \cup
             (184 .. 191) \cup {195, 199, 201, 232, 233, 235, 255} |->
        CASE op = 1 -> "add_rm32_r32"
          [] op \in 80 .. 87 -> "push_r32"
          [] op \in 88 .. 95 -> "pop_r32"
          [] op = 104 -> "push_imm32"
          [] op = 106 -> "push_imm8"
          [] op = 131 -> "code_83"
          [] op = 137 -> "mov_rm32_r32"
          [] op = 139 -> "mov_r32_rm32"
          [] op \in 184 .. 191 -> "mov_r32_imm32"
          [] op = 195 -> "ret"
          [] op = 199 -> "mov_rm32_imm32"
          [] op = 201 -> "leave"
          [] op = 232 -> "call_rel32"
          [] op = 233 -> "near_jump"
          [] op = 235 -> "short_jump"
          [] op = 255 -> "code_ff"]

\* self.insts.get(&opcode) finds a handler / finds this handler
Implemented(opcode) == opcode \in DOMAIN insts
Dispatches(opcode, name) == Implemented(opcode) /\ insts[opcode] = name

Cur == [regs |-> regs, eflags |-> eflags, eip |-> eip, mem |-> mem, fatal |-> FALSE]
Snapshot == [regs |-> regs, eflags |-> eflags, eip |-> eip, mem |-> mem]

Init ==
    \E at \in StartAddresses :
        /\ regs = Emulator_new(at).regs
        /\ eflags = Emulator_new(at).eflags
        /\ eip = Emulator_new(at).eip
        /\ mem = Emulator_new(at).mem
        /\ status = "new"
        /\ overflow_checks \in BOOLEAN
        /\ bin = <<>>
        /\ hist = <<>>

\* main: read the image, load it where eip points, enter Emulator::exec
LoadBin ==
    /\ status = "new"
    /\ \E image \in Programs :
         LET l == load_bin(mem, image, AddrOf(eip))
         IN  /\ bin' = image
             /\ mem' = l.mem
             /\ status' = IF l.ok THEN "running" ELSE "panic"
    /\ UNCHANGED <<regs, eflags, eip, overflow_checks, hist>>

\* Fetching with the loop condition eip <= MEMORY_SIZE
Fetching_OffByOne ==
    status = "running" /\ U32Less(eip, U32(MEMORY_SIZE + 1)) /\ Len(hist) < MaxSteps

\* the loop is at its condition with eip inside the memory
Fetching == status = "running" /\ InMem1(eip) /\ Len(hist) < MaxSteps

\* Iterate without the eip == 0 test after the handler
Iterate_NoEndTest(after) ==
    /\ regs' = after.regs
    /\ eflags' = after.eflags
    /\ eip' = after.eip
    /\ mem' = after.mem
    /\ status' = IF after.fatal THEN "panic" ELSE "running"
    /\ hist' = Append(hist, Snapshot)
    /\ UNCHANGED <<overflow_checks, bin>>

\* one iteration of the loop of Emulator::exec that runs a handler: the
\* handler's effect, then the eip == 0 test
Iterate(after) ==
    /\ regs' = after.regs
    /\ eflags' = after.eflags
    /\ eip' = after.eip
    /\ mem' = after.mem
    /\ status' = IF after.fatal THEN "panic"
                 ELSE IF after.eip = ZeroWord THEN "end" ELSE "running"
    /\ hist' = Append(hist, Snapshot)
    /\ UNCHANGED <<overflow_checks, bin>>

\* the opcode the loop fetches: self.mem.read_u8(self.eip)
Opcode == MemByte(mem, AddrOf(eip))

ExecMovR32Imm32 ==
    /\ Fetching
    /\ Dispatches(Opcode, "mov_r32_imm32")
    /\ Iterate(mov_r32_imm32(Cur))
ExecShortJump ==
    /\ Fetching
    /\ Dispatches(Opcode, "short_jump")
    /\ Iterate(short_jump(Cur))
ExecNearJump ==
    /\ Fetching
    /\ Dispatches(Opcode, "near_jump")
    /\ Iterate(near_jump(Cur))
ExecMovRm32Imm32 ==
    /\ Fetching
    /\ Dispatches(Opcode, "mov_rm32_imm32")
    /\ Iterate(mov_rm32_imm32(Cur))
ExecMovRm32R32 ==
    /\ Fetching
    /\ Dispatches(Opcode, "mov_rm32_r32")
    /\ Iterate(mov_rm32_r32(Cur))
ExecMovR32Rm32 ==
    /\ Fetching
    /\ Dispatches(Opcode, "mov_r32_rm32")
    /\ Iterate(mov_r32_rm32(Cur))
ExecAddRm32R32 ==
    /\ Fetching
    /\ Dispatches(Opcode, "add_rm32_r32")
    /\ Iterate(add_rm32_r32(Cur))
ExecCode83 ==
    /\ Fetching
    /\ Dispatches(Opcode, "code_83")
    /\ Iterate(code_83(Cur))
ExecCodeFF ==
    /\ Fetching
    /\ Dispatches(Opcode, "code_ff")
    /\ Iterate(code_ff(Cur))
ExecPushImm8 ==
    /\ Fetching
    /\ Dispatches(Opcode, "push_imm8")
    /\ Iterate(push_imm8(Cur))
ExecPushImm32 ==
    /\ Fetching
    /\ Dispatches(Opcode, "push_imm32")
    /\ Iterate(push_imm32(Cur))
ExecPushR32 ==
    /\ Fetching
    /\ Dispatches(Opcode, "push_r32")
    /\ Iterate(push_r32(Cur))
ExecPopR32 ==
    /\ Fetching
    /\ Dispatches(Opcode, "pop_r32")
    /\ Iterate(pop_r32(Cur))
ExecCallRel32 ==
    /\ Fetching
    /\ Dispatches(Opcode, "call_rel32")
    /\ Iterate(call_rel32(Cur))
ExecLeave ==
    /\ Fetching
    /\ Dispatches(Opcode, "leave")
    /\ Iterate(leave(Cur))
ExecRet ==
    /\ Fetching
    /\ Dispatches(Opcode, "ret")
    /\ Iterate(ret(Cur))

\* HaltNotImplemented with eip stepped past the opcode before the lookup
HaltNotImplemented_SkipsOpcode ==
    /\ Fetching
    /\ ~Implemented(Opcode)
    /\ status' = "not_implemented"
    /\ eip' = Plus1(eip)
    /\ UNCHANGED <<regs, eflags, mem, overflow_checks, bin, hist>>

\* the else branch of the lookup: "op not implemented", break
HaltNotImplemented ==
    /\ Fetching
    /\ ~Implemented(Opcode)
    /\ status' = "not_implemented"
    /\ UNCHANGED <<regs, eflags, eip, mem, overflow_checks, bin, hist>>

\* the loop condition self.eip < MEMORY_SIZE is false: exec returns
HaltOutOfRange ==
    /\ status = "running"
    /\ ~InMem1(eip)
    /\ status' = "out_of_range"
    /\ UNCHANGED <<regs, eflags, eip, mem, overflow_checks, bin, hist>>

Next ==
    \/ LoadBin
    \/ ExecMovR32Imm32
    \/ ExecShortJump
    \/ ExecNearJump
    \/ ExecMovRm32Imm32
    \/ ExecMovRm32R32
    \/ ExecMovR32Rm32
    \/ ExecAddRm32R32
    \/ ExecCode83
    \/ ExecCodeFF
    \/ ExecPushImm8
    \/ ExecPushImm32
    \/ ExecPushR32
    \/ ExecPopR32
    \/ ExecCallRel32
    \/ ExecLeave
    \/ ExecRet
    \/ HaltNotImplemented
    \/ HaltOutOfRange

Spec == Init /\ [][Next]_vars

TypeOK ==
    /\ status \in {"new", "running", "end", "not_implemented", "out_of_range", "panic"}
    /\ \A i \in RegIdx : regs[i][1] \in 0 .. 65535 /\ regs[i][2] \in 0 .. 65535
    /\ eip[1] \in 0 .. 65535 /\ eip[2] \in 0 .. 65535
    /\ \A a \in DOMAIN mem : a \in 0 .. (MEMORY_SIZE - 1) /\ mem[a] \in 1 .. 255

\* ================================================================== claims
\* hist[k] is the machine before the k-th executed iteration; the machine
\* after it is hist[k + 1], or the current one for the last iteration.
NSteps == Len(hist)
St(k) == IF k <= Len(hist) THEN hist[k] ELSE Snapshot
OpAt(k) == MemByte(hist[k].mem, AddrOf(hist[k].eip))
ByteAt(s, n) == MemByte(s.mem, AddrOf(s.eip) + n)
Completed(k) == k < Len(hist) \/ status # "panic"
StartEip == IF hist = <<>> THEN eip ELSE hist[1].eip
Plus(w, n) == AddBits(w, U32(n)).v

\* the opcode set of the spec's table, and its control transfers
SpecOpcodes == {1, 104, 106, 131, 137, 139, 195, 199, 201, 232, 233, 235, 255} \cup
               (80 .. 95) \cup (184 .. 191)
ControlTransfers == {195, 232, 233, 235}

\* the encoded length of the instruction at s.eip, as the x86 encoding
\* rules give it
ModRMLength(op, b) ==
    LET mo == b \div 64
        rm == b % 8
        sib == IF mo # 3 /\ rm = 4 THEN 1 ELSE 0
        disp == IF mo = 2 \/ (mo = 0 /\ rm = 5) THEN 4 ELSE IF mo = 1 THEN 1 ELSE 0
        imm == IF op = 131 THEN 1 ELSE IF op = 199 THEN 4 ELSE 0
    IN  1 + 1 + sib + disp + imm

EncodedLength(s) ==
    LET op == ByteAt(s, 0)
    IN  IF op \in (80 .. 95) \cup {201} THEN 1
        ELSE IF op = 106 THEN 2
        ELSE IF op \in {104} \cup (184 .. 191) THEN 5
        ELSE ModRMLength(op, ByteAt(s, 1))

\* C1: every instruction that is not a control transfer and completes
\* without a fatal abort leaves eip at its old value plus the encoded
\* length of the instruction.
C1_EipAdvancesByLength ==
    \A k \in 1 .. NSteps :
        (Completed(k) /\ OpAt(k) \notin ControlTransfers)
            => St(k + 1).eip = Plus(hist[k].eip, EncodedLength(hist[k]))

\* a MOV r/m32, imm32 with a disp32 operand (10 bytes) and an
\* ADD r/m32, imm8 with a disp8 operand (4 bytes) have completed
C1_Witness ==
    /\ NSteps >= 1
    /\ Completed(NSteps)
    /\ \/ /\ OpAt(NSteps) = 199
          /\ ByteAt(hist[NSteps], 1) \div 64 = 2
          /\ eip = Plus(hist[NSteps].eip, 10)
       \/ /\ OpAt(NSteps) = 131
          /\ ByteAt(hist[NSteps], 1) \div 64 = 1
          /\ eip = Plus(hist[NSteps].eip, 4)

\* the signed displacement of a relative transfer, sign-extended to 32 bits
RelDisp(s) ==
    IF ByteAt(s, 0) = 235 THEN i8_as_u32(u8_as_i8(ByteAt(s, 1)))
    ELSE WordOf(<<ByteAt(s, 1), ByteAt(s, 2), ByteAt(s, 3), ByteAt(s, 4)>>)
RelLength(s) == IF ByteAt(s, 0) = 235 THEN 2 ELSE 5

\* C2: a relative control transfer at X with displacement d leaves
\* eip = X + L + d (mod 2^32), L = 2 for 0xEB and 5 for 0xE9 / 0xE8.
C2_RelativeTarget ==
    \A k \in 1 .. NSteps :
        (StartEip = U32(LOAD_ADDRESS) /\ Completed(k) /\ OpAt(k) \in {232, 233, 235})
            => St(k + 1).eip =
                 AddBits(Plus(hist[k].eip, RelLength(hist[k])), RelDisp(hist[k])).v

Halted == status \in {"end", "not_implemented", "out_of_range"}
InRange(e) == U32Less(e, U32(MEMORY_SIZE))
Machine == <<regs, eflags, eip, mem>>

\* C3: a running loop halts in exactly three cases: (a) eip >= memory size
\* before a fetch, (c) the fetched opcode has no table entry, (b) eip = 0
\* right after an instruction has executed; in every other running state one
\* iteration fetches one opcode and executes one handler (eip = 0 before any
\* instruction has executed does not halt).
C3_HaltCases ==
    [][ status = "running" =>
          IF ~InRange(eip)
          THEN status' = "out_of_range" /\ UNCHANGED <<Machine, hist>>
          ELSE IF Opcode \notin SpecOpcodes
          THEN status' = "not_implemented" /\ UNCHANGED hist
          ELSE /\ hist' = Append(hist, Snapshot)
               /\ status' \in {"running", "end", "panic"}
               /\ (status' = "end") = (status' # "panic" /\ eip' = ZeroWord)
      ]_vars

\* a machine started with eip = 0 has executed its first instruction from
\* address 0 and is running on
C3_Witness ==
    /\ NSteps = 1
    /\ hist[1].eip = ZeroWord
    /\ ByteAt(hist[1], 0) \in SpecOpcodes
    /\ status = "running"

\* C4: an opcode without a table entry halts the loop as not implemented
\* and leaves the registers, the flags, eip and the memory as they were.
C4_UnknownOpcodeFrame ==
    [][ (status = "running" /\ InRange(eip) /\ Opcode \notin SpecOpcodes)
          => (status' = "not_implemented" /\ UNCHANGED Machine) ]_vars

\* the image 0x90 at the load address has halted the loop
C4_Witness ==
    /\ status = "not_implemented"
    /\ bin = <<144>>
    /\ eip = U32(LOAD_ADDRESS)
    /\ Opcode = 144
    /\ hist = <<>>

\* JMP rel32 from 0x7c00 to address 0
JmpToZero == <<233>> \o BytesOf(SubBits(ZeroWord, U32(LOAD_ADDRESS + 5)).v)

\* C5: an executed instruction that leaves eip = 0 halts the loop as the
\* natural end, and the byte at address 0 is not fetched; the image that is
\* only a near JMP to 0, loaded at 0x7c00, ends so after its one instruction
\* and never as not implemented.
C5_JumpToZeroEnds ==
    /\ (NSteps >= 1 /\ status # "panic" /\ eip = ZeroWord) => status = "end"
    /\ (bin = JmpToZero /\ StartEip = U32(LOAD_ADDRESS))
         => \/ status = "running" /\ hist = <<>> /\ InRange(eip) /\ Opcode = 233
            \/ status = "end" /\ NSteps = 1 /\ eip = ZeroWord

C5_Witness ==
    /\ bin = JmpToZero
    /\ StartEip = U32(LOAD_ADDRESS)
    /\ status = "end"
    /\ MemByte(mem, 0) = 0

\* what a caller reads off the final machine: the halt reason eip stands for
ReasonSeen(e) ==
    IF e = ZeroWord THEN "end"
    ELSE IF InRange(e) THEN "not_implemented" ELSE "out_of_range"

\* C6: for a machine started at 0x7c00 the final machine state tells the
\* three halt reasons apart: the reason is the one the final eip stands for.
C6_HaltReasonObservable ==
    (Halted /\ StartEip = U32(LOAD_ADDRESS)) => status = ReasonSeen(eip)

\* a run from 0x7c00 has ended naturally after a RET to address 0
C6_Witness ==
    /\ status = "end"
    /\ StartEip = U32(LOAD_ADDRESS)
    /\ NSteps = 2
    /\ OpAt(2) = 195

IsPush(k) == OpAt(k) \in (80 .. 87) \cup {104, 106}
IsPop(k) == OpAt(k) \in 88 .. 95
PopDest(k) == OpAt(k) - 88
Imm32At(s) == WordOf(<<ByteAt(s, 1), ByteAt(s, 2), ByteAt(s, 3), ByteAt(s, 4)>>)
PushedValue(k) ==
    IF OpAt(k) = 104 THEN Imm32At(hist[k])
    ELSE IF OpAt(k) = 106 THEN <<0, ByteAt(hist[k], 1)>>
    ELSE hist[k].regs[OpAt(k) - 80]
StackTop(s) == Memory_read_u32(s.mem, s.regs[ESP]).v

\* iterations i .. i + 2n - 1 are n PUSHes and then n POPs, all completed
PushPopBlock(i, n) ==
    /\ i + 2 * n - 1 <= NSteps
    /\ Completed(i + 2 * n - 1)
    /\ \A j \in i .. (i + n - 1) : IsPush(j)
    /\ \A j \in (i + n) .. (i + 2 * n - 1) : IsPop(j)

\* each PUSH decrements ESP by 4 and stores its value at the new ESP, the
\* t-th POP delivers the value of the t-th last PUSH, ESP ends where it began
PushPopLifo(i, n) ==
    /\ \A j \in i .. (i + n - 1) :
          /\ St(j + 1).regs[ESP] = SubBits(hist[j].regs[ESP], U32(4)).v
          /\ StackTop(St(j + 1)) = PushedValue(j)
    /\ \A t \in 1 .. n :
          St(i + n + t).regs[PopDest(i + n + t - 1)] = PushedValue(i + n - t)
    /\ St(i + 2 * n).regs[ESP] = hist[i].regs[ESP]

\* C7 as stated: n PUSHes followed by n POPs into any registers 0..7 are
\* last-in first-out and restore the stack pointer.
C7_PushPopAnyRegister ==
    \A i \in 1 .. NSteps : \A n \in 1 .. NSteps :
        (StartEip = U32(LOAD_ADDRESS) /\ PushPopBlock(i, n)) => PushPopLifo(i, n)

\* C7 amended: the same, for POPs into registers other than ESP.
C7_PushPopLifo ==
    \A i \in 1 .. NSteps : \A n \in 1 .. NSteps :
        (/\ PushPopBlock(i, n)
         /\ \A j \in (i + n) .. (i + 2 * n - 1) : PopDest(j) # ESP)
            => PushPopLifo(i, n)

\* two PUSHes of different values and two POPs, none into ESP, have run
C7_Witness ==
    /\ NSteps = 5
    /\ PushPopBlock(2, 2)
    /\ PopDest(4) # ESP /\ PopDest(5) # ESP
    /\ PushedValue(2) # PushedValue(3)
    /\ regs[PopDest(5)] = PushedValue(2)
    /\ hist[5].regs[PopDest(4)] = PushedValue(3)

\* C8: a CALL rel32 at X whose target holds a RET that executes next pushes
\* X + 5; after the RET eip = X + 5, ESP is what it was before the CALL and
\* no general register has changed.
C8_CallRet ==
    \A k \in 1 .. NSteps :
        (k + 1 <= NSteps /\ OpAt(k) = 232 /\ OpAt(k + 1) = 195 /\ Completed(k + 1))
            => /\ hist[k + 1].regs[ESP] = SubBits(hist[k].regs[ESP], U32(4)).v
               /\ StackTop(hist[k + 1]) = Plus(hist[k].eip, 5)
               /\ St(k + 2).eip = Plus(hist[k].eip, 5)
               /\ St(k + 2).regs = hist[k].regs

\* a CALL with a negative offset and the RET it called have run
C8_Witness ==
    /\ NSteps >= 3
    /\ OpAt(2) = 232 /\ OpAt(3) = 195 /\ Completed(3)
    /\ SignBit(Imm32At(hist[2]))
    /\ St(4).eip = Plus(hist[2].eip, 5)

\* the operands of the 0x83 group instruction of iteration k: the r/m32
\* operand a and the sign-extended immediate b
AsMachine(s) ==
    [regs |-> s.regs, eflags |-> s.eflags, eip |-> s.eip, mem |-> s.mem, fatal |-> FALSE]
GroupParse(k) == ModRM_parse(Advance(AsMachine(hist[k]), 1))
GroupReg(k) == (ByteAt(hist[k], 1) \div 8) % 8
GroupA(k) == ModRM_read_u32(GroupParse(k).x, GroupParse(k).m).v
GroupB(k) == i8_as_u32(Memory_read_i8(hist[k].mem, GroupParse(k).m.eip).v)
FlagAfter(k, bit) == (St(k + 1).eflags[2] \div (2 ^ bit)) % 2 = 1

IsCmpImm8(k) == OpAt(k) = 131 /\ GroupReg(k) = 7 /\ Completed(k)

GroupLow(k) ==
    IF GroupReg(k) = 0 THEN AddBits(GroupA(k), GroupB(k)).v
    ELSE SubBits(GroupA(k), GroupB(k)).v

\* C10: after ADD / SUB / CMP r/m32, imm8, ZERO is set iff the low 32 bits
\* of the wide result are zero.
C10_ZeroFlagLow32 ==
    \A k \in 1 .. NSteps :
        (/\ StartEip = U32(LOAD_ADDRESS)
         /\ OpAt(k) = 131 /\ GroupReg(k) \in {0, 5, 7} /\ Completed(k))
            => FlagAfter(k, 6) = (GroupLow(k) = ZeroWord)

\* the ModRM byte of the instruction of iteration k, and its fields
ModRMAt(k) == ByteAt(hist[k], 1)
ModOf(k) == ModRMAt(k) \div 64
RmOf(k) == ModRMAt(k) % 8
IsModRMOp(k) == OpAt(k) \in {1, 131, 137, 139, 199, 255}

\* the address the code resolves for the operand of iteration k
ResolvedAddress(k) == calc_memory_address(GroupParse(k).x, GroupParse(k).m).v

\* the displacement bytes after the ModRM byte, sign-extended to 32 bits
Disp8At(k) == i8_as_u32(u8_as_i8(ByteAt(hist[k], 2)))
Disp32At(k) ==
    WordOf(<<ByteAt(hist[k], 2), ByteAt(hist[k], 3), ByteAt(hist[k], 4), ByteAt(hist[k], 5)>>)

\* the effective address by two's-complement addition
EffectiveAddress(k) ==
    LET base == hist[k].regs[RmOf(k)]
    IN  IF ModOf(k) = 1 THEN AddBits(base, Disp8At(k)).v
        ELSE IF ModOf(k) = 2 THEN AddBits(base, Disp32At(k)).v
        ELSE IF RmOf(k) = 5 THEN Disp32At(k)
        ELSE base

\* C11: for a memory-mode operand without SIB the resolved address is
\* (base + sign-extended displacement) mod 2^32 for mod = 01 / 10, the
\* disp32 for mod = 00 with rm = 101, and the base register for mod = 00.
C11_EffectiveAddress ==
    \A k \in 1 .. NSteps :
        (/\ StartEip = U32(LOAD_ADDRESS)
         /\ IsModRMOp(k) /\ Completed(k)
         /\ ModOf(k) # 3 /\ RmOf(k) # 4)
            => ResolvedAddress(k) = EffectiveAddress(k)

\* C12: opcode 0xB8 + k with a little-endian immediate v sets register k to
\* v, advances eip by 5 and leaves the other registers, the flags and the
\* memory unchanged.
C12_MovR32Imm32 ==
    \A k \in 1 .. NSteps :
        (OpAt(k) \in 184 .. 191 /\ Completed(k))
            => /\ St(k + 1).regs = [hist[k].regs EXCEPT ![OpAt(k) - 184] = Imm32At(hist[k])]
               /\ St(k + 1).eip = Plus(hist[k].eip, 5)
               /\ St(k + 1).eflags = hist[k].eflags
               /\ St(k + 1).mem = hist[k].mem

\* B8 78 56 34 12 at the load address has given EAX = 0x12345678
C12_Witness ==
    /\ bin = <<184, 120, 86, 52, 18>>
    /\ NSteps = 1
    /\ hist[1].eip = U32(LOAD_ADDRESS)
    /\ regs[EAX] = <<4660, 22136>>
    /\ eip = U32(LOAD_ADDRESS + 5)

\* addresses at both ends of the memory, below and on the loaded image
ProbeAddresses == { U32(1), U32(LOAD_ADDRESS - 2), U32(MEMORY_SIZE - 4) }
ProbeValues == { <<0, 256>>, <<4660, 22136>> }
ByteOfMem(memv, a, n) == Memory_read_u8(memv, Plus(a, n)).v
SameOutside(m1, m2, a) ==
    \A x \in (DOMAIN m1 \cup DOMAIN m2) \ (AddrOf(a) .. (AddrOf(a) + 3)) :
        MemByte(m1, x) = MemByte(m2, x)

\* write_u32(a, v) on memv: read_u32(a) returns v, the bytes at a .. a + 3 are
\* v's bytes least significant first, and no other byte changes
RoundTrip(memv, a, v) ==
    LET w == Memory_write_u32(memv, a, v)
    IN  /\ w.ok
        /\ Memory_read_u32(w.mem, a) = [ok |-> TRUE, v |-> v]
        /\ ByteOfMem(w.mem, a, 0) = v[2] % 256
        /\ ByteOfMem(w.mem, a, 1) = v[2] \div 256
        /\ ByteOfMem(w.mem, a, 2) = v[1] % 256
        /\ ByteOfMem(w.mem, a, 3) = v[1] \div 256
        /\ SameOutside(memv, w.mem, a)

\* C13: for every value v and address a with a + 4 <= memory size,
\* write_u32(a, v) then read_u32(a) returns v, the four bytes are v's in
\* little-endian order, and no byte outside a .. a + 3 changes: on every
\* reachable memory for the probe addresses, and for the write of every PUSH.
C13_WriteReadRoundTrip ==
    /\ \A a \in ProbeAddresses : \A v \in ProbeValues : RoundTrip(mem, a, v)
    /\ \A k \in 1 .. NSteps :
          (IsPush(k) /\ Completed(k))
              => /\ RoundTrip(hist[k].mem, St(k + 1).regs[ESP], PushedValue(k))
                 /\ St(k + 1).mem =
                      Memory_write_u32(hist[k].mem, St(k + 1).regs[ESP], PushedValue(k)).mem

\* PUSH 0x12345678 has stored 78 56 34 12 below the load address
C13_Witness ==
    /\ NSteps >= 1
    /\ OpAt(NSteps) = 104 /\ Completed(NSteps)
    /\ PushedValue(NSteps) = <<4660, 22136>>
    /\ regs[ESP] = U32(LOAD_ADDRESS - 4)
    /\ MemByte(mem, LOAD_ADDRESS - 4) = 120
    /\ MemByte(mem, LOAD_ADDRESS - 1) = 18
    /\ Memory_read_u32(mem, regs[ESP]).v = <<4660, 22136>>

\* the encodings no handler supports: SIB addressing in a ModRM opcode, a
\* reg selector outside {0, 5, 7} in 0x83, a reg selector other than 0 in 0xFF
SibEncoding(k) == IsModRMOp(k) /\ ModOf(k) # 3 /\ RmOf(k) = 4
UnsupportedEncoding(k) ==
    \/ SibEncoding(k)
    \/ OpAt(k) = 131 /\ GroupReg(k) \notin {0, 5, 7}
    \/ OpAt(k) = 255 /\ GroupReg(k) # 0

\* C14: an instruction with an unsupported encoding ends the run in the
\* fatal outcome, not the unimplemented-opcode halt, and has modified no
\* general register and no memory byte.
C14_UnsupportedEncodingFatal ==
    \A k \in 1 .. NSteps :
        UnsupportedEncoding(k)
            => /\ k = NSteps
               /\ status = "panic"
               /\ regs = hist[k].regs
               /\ mem = hist[k].mem

\* 8B 04 (MOV EAX, [SIB]) at the load address has ended the run fatally
C14_Witness ==
    /\ NSteps = 1
    /\ hist[1].eip = U32(LOAD_ADDRESS)
    /\ OpAt(1) = 139 /\ ByteAt(hist[1], 1) = 4
    /\ status = "panic"
    /\ regs = hist[1].regs /\ regs[ESP] = U32(LOAD_ADDRESS)
    /\ mem = hist[1].mem

\* C15: the dispatch table built at construction binds some opcode byte to
\* CMP r32, r/m32, so that a loaded program can execute it.
C15_CmpR32Rm32Dispatched ==
    (status = "running" /\ StartEip = U32(LOAD_ADDRESS))
        => \E op \in Bytes : Dispatches(op, "cmp_r32_rm32")

IsAddImm8(k) == OpAt(k) = 131 /\ GroupReg(k) = 0 /\ Completed(k)
SignedAddOverflows(a, b) ==
    SignBit(a) = SignBit(b) /\ SignBit(AddBits(a, b).v) # SignBit(a)

\* C16: after ADD r/m32, imm8 on a and the sign-extended immediate b,
\* OVERFLOW is set iff a and b have the same sign and the 32-bit result the
\* opposite sign, and CARRY iff the unsigned sum a + b is at least 2^32.
C16_AddOverflowCarry ==
    \A k \in 1 .. NSteps :
        (IsAddImm8(k) /\ StartEip = U32(LOAD_ADDRESS))
            => /\ FlagAfter(k, 11) = SignedAddOverflows(GroupA(k), GroupB(k))
               /\ FlagAfter(k, 1) = (AddBits(GroupA(k), GroupB(k)).carry = 1)

FlagBits == {CARRY, ZERO, SIGN, OVERFLOW}
OnlyFlagBits(f) ==
    /\ f[1] = 0
    /\ \A b \in (0 .. 15) \ FlagBits : (f[2] \div (2 ^ b)) % 2 = 0

\* C17: the flags register never has a bit set other than CARRY, ZERO, SIGN
\* and OVERFLOW, and every instruction outside the 0x83 group (CMP r32,
\* r/m32 is bound to no opcode) leaves the flags register as it was.
C17_FlagsFrame ==
    /\ OnlyFlagBits(eflags)
    /\ \A k \in 1 .. NSteps :
          /\ OnlyFlagBits(hist[k].eflags)
          /\ OpAt(k) # 131 => St(k + 1).eflags = hist[k].eflags

\* MOV EAX, 1; CMP EAX, 1 has set ZERO, and ADD EAX, EAX has then doubled
\* EAX with the flags still as the compare left them
C17_Witness ==
    /\ NSteps = 3
    /\ OpAt(2) = 131 /\ OpAt(3) = 1 /\ Completed(3)
    /\ hist[3].eflags = <<0, 64>>
    /\ eflags = <<0, 64>>
    /\ hist[3].regs[EAX] = <<0, 1>>
    /\ regs[EAX] = <<0, 2>>

\* the r/m32 operand of iteration k, read in the state after it
OperandAfter(k) ==
    ModRM_read_u32(GroupParse(k).x, [AsMachine(St(k + 1)) EXCEPT !.eip = GroupParse(k).m.eip]).v
SubFlagsOf(k) == sub_rm32_imm8(GroupParse(k)).eflags

\* C18: CMP r/m32, imm8 changes no general register and no memory byte and
\* produces the flags SUB r/m32, imm8 produces from the same operand and
\* immediate; SUB writes (a - b) mod 2^32 and ADD (a + b) mod 2^32 to the
\* operand, b the sign-extended immediate.
C18_CmpDiscardsDifference ==
    \A k \in 1 .. NSteps :
        (OpAt(k) = 131 /\ Completed(k)) =>
            /\ GroupReg(k) = 7 =>
                  /\ St(k + 1).regs = hist[k].regs
                  /\ St(k + 1).mem = hist[k].mem
                  /\ St(k + 1).eip = Plus(GroupParse(k).m.eip, 1)
                  /\ St(k + 1).eflags = SubFlagsOf(k)
            /\ GroupReg(k) = 5 =>
                  OperandAfter(k) = SubBits(GroupA(k), GroupB(k)).v
            /\ GroupReg(k) = 0 =>
                  OperandAfter(k) = AddBits(GroupA(k), GroupB(k)).v

\* MOV EAX, 1; CMP EAX, 1 has set ZERO and left EAX = 1
C18_Witness ==
    /\ NSteps = 2
    /\ OpAt(2) = 131 /\ GroupReg(2) = 7 /\ Completed(2)
    /\ GroupA(2) = <<0, 1>> /\ GroupB(2) = <<0, 1>>
    /\ regs[EAX] = <<0, 1>>
    /\ eflags = <<0, 64>>
    /\ mem = hist[2].mem

IsSelfJump(k) == OpAt(k) = 235 /\ ByteAt(hist[k], 1) = 254 /\ hist[k].eip # ZeroWord

====
